---- MODULE Spec2Model ----
(***************************************************************************)
(* The sled-backed light store of the light client:                        *)
(*   light-client/src/store/sled.rs        SledStore (four status tables)  *)
(*   light-client/src/store/sled/utils.rs  KeyValueDb (typed CBOR table)   *)
(* A table is a sled Tree: an ordered map from key bytes to value bytes.   *)
(* Keys are CBOR-encoded heights, values are CBOR-encoded light blocks.    *)
(***************************************************************************)
EXTENDS Integers, Sequences, FiniteSets, TLC

\* ------------------------------------------------------------------ bounds
\* Number of block heights in use.
NumHeights == 2
\* Rows the whole store may hold when a single thread runs whole calls.
MaxRows == 2
\* Threads (clones of the SledStore handle) that update step by step.
NumProcs == 2
\* Update calls each thread makes when updates race on any heights.
MaxRaces == 1
\* Single-value cells opened on the database.
NumCells == 2
\* Update calls the verification loop starts while one scan is under way.
MaxMoves == 2

\* Heights 23, 24, ...: they straddle the one-byte / two-byte CBOR boundary.
Heights == {22 + i : i \in 1..NumHeights}
Procs == 1..NumProcs
\* The namespaces under which single-value cells are opened.
Cells == 1..NumCells

\* ------------------------------------------------------------------ types
Status == {"Unverified", "Verified", "Trusted", "Failed"}

\* Status::iter(): the slice of all statuses that update walks.
StatusIter == <<"Unverified", "Verified", "Trusted", "Failed">>

\* A light block: its height and the rest of its content, which the store
\* never looks into: two contents tell an overwrite from the row it replaced.
LightBlock == [height : Heights, payload : BOOLEAN]

\* Option<T>
None == <<>>
Some(v) == <<v>>

\* Result<T, Error>
Ok(v) == [ok |-> TRUE, val |-> v]
Err == [ok |-> FALSE, val |-> <<>>]

\* Result::ok(): Ok(v) -> Some(v), Err -> None
ResultOk(r) == IF r.ok THEN Some(r.val) ELSE None

\* Option<Option<T>>::flatten()
OptFlatten(o) == IF o = None THEN None ELSE o[1]

\* ------------------------------------------------------------------ CBOR
\* Variant of to_vec_uint with the one-byte boundary off by one.
to_vec_uint_Boundary(n) ==
    IF n < 25 THEN <<n>>
    ELSE IF n < 256 THEN <<24, n>>
    ELSE <<25, n \div 256, n % 256>>

\* serde_cbor::to_vec of an unsigned integer (major type 0).
to_vec_uint(n) ==
    IF n < 24 THEN <<n>>
    ELSE IF n < 256 THEN <<24, n>>
    ELSE <<25, n \div 256, n % 256>>

\* serde_cbor reading one unsigned integer from the front of a byte string:
\* [ok, val, rest].
read_uint(bytes) ==
    IF Len(bytes) = 0 THEN [ok |-> FALSE, val |-> 0, rest |-> <<>>]
    ELSE IF bytes[1] < 24
        THEN [ok |-> TRUE, val |-> bytes[1], rest |-> Tail(bytes)]
    ELSE IF bytes[1] = 24 /\ Len(bytes) >= 2
        THEN [ok |-> TRUE, val |-> bytes[2], rest |-> SubSeq(bytes, 3, Len(bytes))]
    ELSE IF bytes[1] = 25 /\ Len(bytes) >= 3
        THEN [ok |-> TRUE, val |-> bytes[2] * 256 + bytes[3],
              rest |-> SubSeq(bytes, 4, Len(bytes))]
    ELSE [ok |-> FALSE, val |-> 0, rest |-> <<>>]

\* serde_cbor::to_vec of a boolean: the simple values 0xf4 and 0xf5.
to_vec_bool(v) == IF v THEN <<245>> ELSE <<244>>

\* serde_cbor reading one boolean from the front of a byte string.
read_bool(bytes) ==
    IF Len(bytes) = 0 \/ bytes[1] \notin {244, 245}
        THEN [ok |-> FALSE, val |-> FALSE, rest |-> <<>>]
        ELSE [ok |-> TRUE, val |-> (bytes[1] = 245), rest |-> Tail(bytes)]

\* serde_cbor::to_vec of a light block: a two-element array (0x82) of its
\* height and its content.
to_vec_block(b) == <<130>> \o to_vec_uint(b.height) \o to_vec_bool(b.payload)

\* serde_cbor::from_slice::<LightBlock>: Ok(block), or Err when the bytes
\* are not the encoding of a light block (trailing bytes are an error).
from_slice_block(bytes) ==
    IF Len(bytes) = 0 \/ bytes[1] # 130 THEN Err
    ELSE LET h == read_uint(Tail(bytes)) IN
         IF ~h.ok THEN Err
         ELSE LET p == read_bool(h.rest) IN
              IF ~p.ok \/ p.rest # <<>> THEN Err
              ELSE Ok([height |-> h.val, payload |-> p.val])

\* serde_cbor::from_slice::<Option<LightBlock>>, the type KeyValueDb::get
\* decodes at: CBOR null (0xf6) is None, anything else is Some(block).
from_slice_option(bytes) ==
    IF bytes = <<246>> THEN Ok(None)
    ELSE LET r == from_slice_block(bytes) IN
         IF r.ok THEN Ok(Some(r.val)) ELSE Err

\* ------------------------------------------------------------------ sled Tree
\* A Tree is a function from key bytes to value bytes.
EmptyTree == << >>

\* Variant of Tree::insert that keeps the table to one row: a retention
\* policy that evicts what was there.
Tree_insert_Evicting(tree, k, v) == [x \in {k} |-> v]

\* Variant of Tree::insert that leaves a row that is there already.
Tree_insert_KeepsOld(tree, k, v) ==
    IF k \in DOMAIN tree THEN tree
    ELSE [x \in (DOMAIN tree) \cup {k} |-> IF x = k THEN v ELSE tree[x]]

Tree_get(tree, k) == IF k \in DOMAIN tree THEN Some(tree[k]) ELSE None

Tree_insert(tree, k, v) ==
    [x \in (DOMAIN tree) \cup {k} |-> IF x = k THEN v ELSE tree[x]]

\* Lexicographic order on byte strings: the Tree's key order.
RECURSIVE BytesLess(_, _)
BytesLess(a, b) ==
    IF a = <<>> THEN b # <<>>
    ELSE IF b = <<>> THEN FALSE
    ELSE IF Head(a) # Head(b) THEN Head(a) < Head(b)
    ELSE BytesLess(Tail(a), Tail(b))

\* Variant of Tree::remove that deletes every row up to the key as well.
Tree_remove_UpTo(tree, k) ==
    [x \in {y \in DOMAIN tree : BytesLess(k, y)} |-> tree[x]]

Tree_remove(tree, k) == [x \in (DOMAIN tree) \ {k} |-> tree[x]]

RECURSIVE SortKeys(_)
SortKeys(S) ==
    IF S = {} THEN <<>>
    ELSE LET m == CHOOSE k \in S : \A o \in S \ {k} : BytesLess(k, o)
         IN <<m>> \o SortKeys(S \ {m})

\* Tree::iter(): the (key, value) rows in ascending key-byte order.
Tree_iter(tree) ==
    LET ks == SortKeys(DOMAIN tree)
    IN [i \in 1..Len(ks) |-> <<ks[i], tree[ks[i]]>>]

\* ------------------------------------------------------------------ KeyValueDb
\* Every engine call can fail (sled returns Err, mapped to ErrorKind::Store);
\* `fail` says whether this one does. A failed engine call changes nothing.

\* KeyValueDb::get -> Result<Option<V>, Error>
KeyValueDb_get(tree, key, fail) ==
    IF fail THEN Err
    ELSE LET value_bytes == Tree_get(tree, to_vec_uint(key)) IN
         IF value_bytes = None THEN Ok(None)
         ELSE from_slice_option(value_bytes[1])

\* KeyValueDb::insert -> (Result<(), Error>, the tree afterwards)
KeyValueDb_insert(tree, key, value, fail) ==
    IF fail THEN [res |-> Err, tree |-> tree]
    ELSE [res |-> Ok(<<>>),
          tree |-> Tree_insert(tree, to_vec_uint(key), to_vec_block(value))]

\* Variant of KeyValueDb::remove that clears the tree instead of one key.
KeyValueDb_remove_Clear(tree, key, fail) ==
    IF fail THEN [res |-> Err, tree |-> tree]
    ELSE [res |-> Ok(<<>>), tree |-> EmptyTree]

\* KeyValueDb::remove -> (Result<(), Error>, the tree afterwards)
KeyValueDb_remove(tree, key, fail) ==
    IF fail THEN [res |-> Err, tree |-> tree]
    ELSE [res |-> Ok(<<>>), tree |-> Tree_remove(tree, to_vec_uint(key))]

\* Variant of the scan that ends at the first row that fails to decode.
RECURSIVE DecodeRows_Aborts(_)
DecodeRows_Aborts(rows) ==
    IF rows = <<>> THEN <<>>
    ELSE LET r == from_slice_block(Head(rows)[2]) IN
         IF r.ok THEN <<r.val>> \o DecodeRows_Aborts(Tail(rows)) ELSE <<>>

\* KeyValueDb::iter: the values of the rows in key order that decode.
RECURSIVE DecodeRows(_)
DecodeRows(rows) ==
    IF rows = <<>> THEN <<>>
    ELSE LET r == from_slice_block(Head(rows)[2]) IN
         (IF r.ok THEN <<r.val>> ELSE <<>>) \o DecodeRows(Tail(rows))

KeyValueDb_iter(tree) == DecodeRows(Tree_iter(tree))

\* ------------------------------------------------------------------ SingleDb
\* SingleDb<V> is a KeyValueDb<(), V>: one row under the encoding of the unit
\* key. V is any serializable type; here it is Option<Height>.
CellValue == {None} \cup {Some(h) : h \in Heights}

\* serde_cbor::to_vec(&()): the unit is the CBOR null.
to_vec_unit == <<246>>

\* serde_cbor::to_vec of an Option<Height>: None is the CBOR null, Some(h) is h.
to_vec_option_uint(v) == IF v = None THEN <<246>> ELSE to_vec_uint(v[1])

\* serde_cbor::from_slice::<Option<V>> with V = Option<Height>, the type
\* KeyValueDb::get decodes at: a CBOR null is the outer None, anything else
\* is Some of what decodes as V.
from_slice_option_cell(bytes) ==
    IF bytes = <<246>> THEN Ok(None)
    ELSE LET r == read_uint(bytes) IN
         IF r.ok /\ r.rest = <<>> THEN Ok(Some(Some(r.val))) ELSE Err

\* SingleDb::get -> Result<Option<V>, Error>: KeyValueDb::get(&())
SingleDb_get(tree, fail) ==
    IF fail THEN Err
    ELSE LET value_bytes == Tree_get(tree, to_vec_unit) IN
         IF value_bytes = None THEN Ok(None)
         ELSE from_slice_option_cell(value_bytes[1])

\* SingleDb::set -> (Result<(), Error>, the tree afterwards):
\* KeyValueDb::insert(&(), &value)
SingleDb_set(tree, value, fail) ==
    IF fail THEN [res |-> Err, tree |-> tree]
    ELSE [res |-> Ok(<<>>),
          tree |-> Tree_insert(tree, to_vec_unit, to_vec_option_uint(value))]

\* ------------------------------------------------------------------ SledStore
\* SledStore::new: four empty trees under four prefixes.
SledStore_new == [s \in Status |-> EmptyTree]

\* Variant of db with the trusted arm returning the verified table.
db_WrongArm(store, status) ==
    IF status = "Trusted" THEN store["Verified"] ELSE store[status]

\* SledStore::db
db(store, status) == store[status]

\* LightBlock::height
height(light_block) == light_block.height

\* SledStore::get
SledStore_get(store, h, status, fail) ==
    OptFlatten(ResultOk(KeyValueDb_get(db(store, status), h, fail)))

\* Variant of insert that also clears the height from the other tables.
SledStore_insert_Clearing(store, light_block, status, fail) ==
    [s \in Status |->
        IF s = status
            THEN KeyValueDb_insert(store[s], light_block.height, light_block, fail).tree
            ELSE KeyValueDb_remove(store[s], light_block.height, fail).tree]

\* Variant of insert that keys the row by the height after the block's.
SledStore_insert_OffByOne(store, light_block, status, fail) ==
    [store EXCEPT ![status] =
        KeyValueDb_insert(db(store, status), height(light_block) + 1,
                          light_block, fail).tree]

\* SledStore::insert
SledStore_insert(store, light_block, status, fail) ==
    [store EXCEPT ![status] =
        KeyValueDb_insert(db(store, status), height(light_block), light_block, fail).tree]

\* Variant of SledStore::remove that deletes the height from every table.
SledStore_remove_AllTables(store, h, status, fail) ==
    [s \in Status |-> KeyValueDb_remove(store[s], h, fail).tree]

\* Variant of SledStore::remove that never reaches the table.
SledStore_remove_NoOp(store, h, status, fail) == store

\* SledStore::remove
SledStore_remove(store, h, status, fail) ==
    [store EXCEPT ![status] = KeyValueDb_remove(db(store, status), h, fail).tree]

\* Variant of the loop body with the comparison inverted.
LoopBody_Inverted(store, h, status, i, failing) ==
    LET other == StatusIter[i] IN
    IF status = other
        THEN SledStore_remove(store, h, other, other \in failing)
        ELSE store

\* One iteration of the for loop of SledStore::update, at position i of
\* Status::iter(); `failing` is the set of statuses whose table operation
\* fails during this call.
LoopBody(store, h, status, i, failing) ==
    LET other == StatusIter[i] IN
    IF status # other
        THEN SledStore_remove(store, h, other, other \in failing)
        ELSE store

\* Variant of the update loop that stops one status short.
RECURSIVE UpdateLoop_StopsShort(_, _, _, _, _)
UpdateLoop_StopsShort(store, h, status, i, failing) ==
    IF i > Len(StatusIter) - 1 THEN store
    ELSE UpdateLoop_StopsShort(LoopBody(store, h, status, i, failing),
                               h, status, i + 1, failing)

\* The for loop of SledStore::update from position i on.
RECURSIVE UpdateLoop(_, _, _, _, _)
UpdateLoop(store, h, status, i, failing) ==
    IF i > Len(StatusIter) THEN store
    ELSE UpdateLoop(LoopBody(store, h, status, i, failing),
                    h, status, i + 1, failing)

\* SledStore::update
SledStore_update(store, light_block, status, failing) ==
    SledStore_insert(UpdateLoop(store, height(light_block), status, 1, failing),
                     light_block, status, status \in failing)

\* Iterator::max_by(|first, second| first.height().cmp(&second.height())):
\* the last of the elements of maximum height.
RECURSIVE MaxByFold(_, _)
MaxByFold(acc, rest) ==
    IF rest = <<>> THEN acc
    ELSE MaxByFold(IF height(acc) > height(Head(rest)) THEN acc ELSE Head(rest),
                   Tail(rest))

\* Variant of max_by that takes the first row the scan yields.
max_by_First(blocks) ==
    IF blocks = <<>> THEN None ELSE Some(Head(blocks))

max_by(blocks) ==
    IF blocks = <<>> THEN None ELSE Some(MaxByFold(Head(blocks), Tail(blocks)))

\* SledStore::latest
SledStore_latest(store, status) == max_by(KeyValueDb_iter(db(store, status)))

\* Variant of SledStore::all that walks the table twice.
SledStore_all_Twice(store, status) ==
    KeyValueDb_iter(db(store, status)) \o KeyValueDb_iter(db(store, status))

\* SledStore::all
SledStore_all(store, status) == KeyValueDb_iter(db(store, status))

\* ------------------------------------------------------------------ state
VARIABLES
    trees,      \* the four status tables of the shared database
    last,       \* the light-store call that completed last, and what it returned
    procs,      \* per thread: the position inside a running update
    lastUpdate, \* per height: the arguments of the last update call started,
                \* kept where no two updates run on one height at once
    calls,      \* per thread: the number of update calls started, kept
                \* where updates race
    scan,       \* the observer's scan of one table (all, or the scan inside
                \* latest), pulled one row at a time
    cell        \* per namespace: the tree behind the single-value cell, and
                \* the value of the last set that succeeded

vars == <<trees, last, procs, lastUpdate, calls, scan, cell>>

\* Number of rows in the whole store.
Rows(store) ==
    Cardinality(DOMAIN store["Unverified"]) + Cardinality(DOMAIN store["Verified"])
    + Cardinality(DOMAIN store["Trusted"]) + Cardinality(DOMAIN store["Failed"])

\* The blocks held in status s's table.
BlocksIn(store, s) ==
    {from_slice_block(store[s][k]).val : k \in DOMAIN store[s]}

\* The statuses under which height h has a row.
HeldUnder(store, h) == {s \in Status : to_vec_uint(h) \in DOMAIN store[s]}

Call(op, h, status, block, ret, held, failed) ==
    [op |-> op, height |-> h, status |-> status, block |-> block,
     ret |-> ret, held |-> held, failed |-> failed]

\* SingleDb::new: a tree with no row; no set has succeeded.
EmptyCell == [tree |-> EmptyTree, set |-> None]

\* No scan has been started.
NoScan == [pc |-> "idle", status |-> "Unverified", cursor |-> None,
           view |-> None, out |-> <<>>, snaps |-> {}, moves |-> 0]

Idle == [pc |-> "idle", block |-> None, status |-> "Unverified", idx |-> 0, held |-> {}]

Init ==
    /\ trees = SledStore_new
    /\ last = Call("new", 0, "Unverified", None, None, {}, {})
    /\ procs = [p \in Procs |-> Idle]
    /\ lastUpdate = [h \in Heights |-> None]
    /\ calls = [p \in Procs |-> 0]
    /\ scan = NoScan
    /\ cell = [n \in Cells |-> EmptyCell]

\* ------------------------------------------------------------------ calls that run to completion
\* store.get(height, status)
Get(h, status, fail) ==
    /\ last' = Call("get", h, status, None,
                    SledStore_get(trees, h, status, fail), {},
                    IF fail THEN {status} ELSE {})
    /\ UNCHANGED <<trees, procs, lastUpdate, calls, scan, cell>>

\* store.insert(light_block, status)
Insert(b, status, fail) ==
    /\ trees' = SledStore_insert(trees, b, status, fail)
    /\ Rows(trees') <= MaxRows
    /\ last' = Call("insert", height(b), status, Some(b), None,
                    HeldUnder(trees, height(b)), IF fail THEN {status} ELSE {})
    /\ UNCHANGED <<procs, lastUpdate, calls, scan, cell>>

\* store.update(&light_block, status), run by a single thread
Update(b, status, failing) ==
    /\ trees' = SledStore_update(trees, b, status, failing)
    /\ Rows(trees') <= MaxRows
    /\ last' = Call("update", height(b), status, Some(b), None,
                    HeldUnder(trees, height(b)), failing)
    /\ UNCHANGED <<procs, lastUpdate, calls, scan, cell>>

\* store.remove(height, status)
Remove(h, status, fail) ==
    /\ trees' = SledStore_remove(trees, h, status, fail)
    /\ last' = Call("remove", h, status, None, None,
                    HeldUnder(trees, h), IF fail THEN {status} ELSE {})
    /\ UNCHANGED <<procs, lastUpdate, calls, scan, cell>>

\* store.latest(status)
Latest(status) ==
    /\ last' = Call("latest", 0, status, None, SledStore_latest(trees, status), {}, {})
    /\ UNCHANGED <<trees, procs, lastUpdate, calls, scan, cell>>

\* store.all(status), collected
All(status) ==
    /\ last' = Call("all", 0, status, None, SledStore_all(trees, status), {}, {})
    /\ UNCHANGED <<trees, procs, lastUpdate, calls, scan, cell>>

\* One thread using the store, no engine failures.
Next ==
    \/ \E h \in Heights, s \in Status : Get(h, s, FALSE)
    \/ \E b \in LightBlock, s \in Status : Insert(b, s, FALSE)
    \/ \E b \in LightBlock, s \in Status : Update(b, s, {})
    \/ \E h \in Heights, s \in Status : Remove(h, s, FALSE)
    \/ \E s \in Status : Latest(s)
    \/ \E s \in Status : All(s)

Spec == Init /\ [][Next]_vars

\* ------------------------------------------------------------------ update, one engine call at a time
\* update takes no lock: between its removes and its insert other threads and
\* readers see the store. A thread is idle, in the for loop at position idx,
\* or about to insert.
AllIdle == \A p \in Procs : procs[p].pc = "idle"

Running(h) ==
    {p \in Procs : procs[p].pc # "idle" /\ height(procs[p].block[1]) = h}

\* Thread p calls store.update(&b, status): let height = light_block.height()
UpdateBegin(p, b, status) ==
    /\ procs[p].pc = "idle"
    /\ procs' = [procs EXCEPT ![p] =
                    [pc |-> "loop", block |-> Some(b), status |-> status, idx |-> 1,
                     held |-> HeldUnder(trees, height(b))]]
    /\ UNCHANGED <<trees, last, scan, cell>>

\* Variant of the loop step that never moves on to the next status.
UpdateStep_Spins(p) ==
    /\ procs[p].pc = "loop"
    /\ trees' = LoopBody(trees, height(procs[p].block[1]), procs[p].status,
                         procs[p].idx, {})
    /\ UNCHANGED <<procs, last, lastUpdate, calls, cell>>

\* One iteration of the for loop of thread p's update.
UpdateStep(p) ==
    /\ procs[p].pc = "loop"
    /\ trees' = LoopBody(trees, height(procs[p].block[1]), procs[p].status,
                         procs[p].idx, {})
    /\ procs' = [procs EXCEPT ![p] =
                    IF procs[p].idx < Len(StatusIter)
                        THEN [@ EXCEPT !.idx = @ + 1]
                        ELSE [@ EXCEPT !.pc = "insert", !.idx = 0]]
    /\ UNCHANGED <<last, lastUpdate, calls, cell>>

\* The insert that ends thread p's update; the call returns.
UpdateInsert(p) ==
    /\ procs[p].pc = "insert"
    /\ trees' = SledStore_insert(trees, procs[p].block[1], procs[p].status, FALSE)
    /\ procs' = [procs EXCEPT ![p] = Idle]
    /\ UNCHANGED <<lastUpdate, calls, cell>>

\* Thread p's update is the call that completed last.
Returned(p) ==
    last' = Call("update", height(procs[p].block[1]), procs[p].status,
                 procs[p].block, None, procs[p].held, {})

\* An iteration of the for loop with no scan under way.
LoopStep(p) == UpdateStep(p) /\ UNCHANGED scan

\* A single writer: update and remove, issued one at a time on a store that
\* starts empty.
MoveBegin(p, b, status) ==
    AllIdle /\ UpdateBegin(p, b, status) /\ UNCHANGED <<lastUpdate, calls>>

MoveInsert(p) == UpdateInsert(p) /\ UNCHANGED <<last, scan>>

MoveRemove(h, status) ==
    /\ AllIdle
    /\ trees' = SledStore_remove(trees, h, status, FALSE)
    /\ UNCHANGED <<last, procs, lastUpdate, calls, scan, cell>>

NextMove ==
    \/ \E p \in Procs, b \in LightBlock, s \in Status : MoveBegin(p, b, s)
    \/ \E p \in Procs : LoopStep(p)
    \/ \E p \in Procs : MoveInsert(p)
    \/ \E h \in Heights, s \in Status : MoveRemove(h, s)

SpecMove == Init /\ [][NextMove]_vars

\* Threads updating concurrently, any heights, MaxRaces calls each.
RaceBegin(p, b, status) ==
    /\ calls[p] < MaxRaces
    /\ UpdateBegin(p, b, status)
    /\ calls' = [calls EXCEPT ![p] = @ + 1]
    /\ UNCHANGED lastUpdate

RaceInsert(p) == UpdateInsert(p) /\ Returned(p) /\ UNCHANGED scan

NextConc ==
    \/ \E p \in Procs, b \in LightBlock, s \in Status : RaceBegin(p, b, s)
    \/ \E p \in Procs : LoopStep(p)
    \/ \E p \in Procs : RaceInsert(p)

SpecConc == Init /\ [][NextConc]_vars

\* The same threads under a fair scheduler: update takes no lock and waits for
\* nothing, so a thread inside update that can take its next engine call
\* eventually takes it.
SpecLive ==
    /\ Init
    /\ [][NextConc]_vars
    /\ \A p \in Procs : WF_vars(LoopStep(p)) /\ WF_vars(RaceInsert(p))

\* Threads updating concurrently, no two running updates on the same height.
DistinctBegin(p, b, status) ==
    /\ Running(height(b)) = {}
    /\ UpdateBegin(p, b, status)
    /\ lastUpdate' = [lastUpdate EXCEPT ![height(b)] =
                        Some([block |-> b, status |-> status,
                              conc |-> \E q \in Procs \ {p} : procs[q].pc # "idle",
                              again |-> lastUpdate[height(b)] # None])]
    /\ UNCHANGED calls

DistinctInsert(p) == UpdateInsert(p) /\ UNCHANGED <<last, scan>>

NextDistinct ==
    \/ \E p \in Procs, b \in LightBlock, s \in Status : DistinctBegin(p, b, s)
    \/ \E p \in Procs : LoopStep(p)
    \/ \E p \in Procs : DistinctInsert(p)

SpecDistinct == Init /\ [][NextDistinct]_vars

\* One thread using the store while engine calls can fail.
NextFail ==
    \/ \E h \in Heights, s \in Status, fail \in BOOLEAN : Get(h, s, fail)
    \/ \E b \in LightBlock, s \in Status, fail \in BOOLEAN : Insert(b, s, fail)
    \/ \E b \in LightBlock, s \in Status, failing \in SUBSET Status :
           Update(b, s, failing)
    \/ \E h \in Heights, s \in Status, fail \in BOOLEAN : Remove(h, s, fail)

SpecFail == Init /\ [][NextFail]_vars

\* ------------------------------------------------------------------ a scan, one row at a time
\* KeyValueDb::iter is lazy: all hands the iterator to the caller and latest
\* folds max_by over it, and neither takes a lock. What a pull of the engine's
\* iterator reads is the engine's matter: the tree as it is at that pull, or
\* rows the iterator has kept from an earlier pull (the engine keeps the leaf
\* it last read). Both are allowed at every pull.

\* The next row of a view of the tree: the first one, in key order, above the
\* cursor.
NextRow(tree, cursor) ==
    LET ks == {k \in DOMAIN tree : cursor = None \/ BytesLess(cursor[1], k)} IN
    IF ks = {} THEN None
    ELSE LET k == SortKeys(ks)[1] IN Some(<<k, tree[k]>>)

\* Variant of ScanView that reads the verified table whatever the status.
ScanView_WrongTable(store, status) == store["Verified"]

\* The tree a scan of status's table reads: self.db(status).
ScanView(store, status) == db(store, status)

\* The observer calls store.all(status) or store.latest(status): both create
\* the iterator of status's table. Nothing is read yet.
ScanBegin(status) ==
    /\ scan.pc # "next"
    /\ scan' = [pc |-> "next", status |-> status, cursor |-> None, view |-> None,
                out |-> <<>>, snaps |-> {BlocksIn(trees, status)}, moves |-> 0]
    /\ UNCHANGED <<trees, last, procs, lastUpdate, calls, cell>>

\* One pull of the iterator, served from the tree as it is now (fresh) or
\* from the rows kept at an earlier pull: a row that decodes is yielded, a row
\* that does not is passed over, and the scan ends when the view has no row
\* above the cursor.
ScanNext(fresh) ==
    /\ scan.pc = "next"
    /\ fresh \/ scan.view # None
    /\ LET view == IF fresh THEN ScanView(trees, scan.status) ELSE scan.view[1]
           row == NextRow(view, scan.cursor) IN
       IF row = None
           THEN scan' = [scan EXCEPT !.pc = "done", !.view = None]
           ELSE LET r == from_slice_block(row[1][2]) IN
                scan' = [scan EXCEPT !.cursor = Some(row[1][1]),
                                     !.view = Some(view),
                                     !.out = IF r.ok THEN Append(@, r.val) ELSE @]
    /\ UNCHANGED <<trees, last, procs, lastUpdate, calls, cell>>

\* What the finished scan gives its caller: the rows yielded when it was
\* called as all, their maximum by height when it was called as latest.
ScanResult(sc, kind) == IF kind = "latest" THEN max_by(sc.out) ELSE sc.out

\* The contents status's table has had, one after the other, since the
\* running scan began; the record of a scan that has ended is dropped.
Saw(sc, store) ==
    IF sc.pc = "next"
        THEN [sc EXCEPT !.snaps = @ \cup {BlocksIn(store, sc.status)}]
        ELSE NoScan

\* The blocks the scanned table has held at some moment of the scan.
Seen(sc) == UNION sc.snaps

\* The verification loop is one thread, the first; its updates run one engine
\* call at a time next to the observer's scan.
Verifier == CHOOSE p \in Procs : \A q \in Procs : p <= q

WatchedBegin(b, status) ==
    /\ AllIdle
    /\ scan.pc = "next" => scan.moves < MaxMoves
    /\ procs' = [procs EXCEPT ![Verifier] =
                    [pc |-> "loop", block |-> Some(b), status |-> status, idx |-> 1,
                     held |-> HeldUnder(trees, height(b))]]
    /\ scan' = IF scan.pc = "next" THEN [scan EXCEPT !.moves = @ + 1] ELSE scan
    /\ UNCHANGED <<trees, last, lastUpdate, calls, cell>>

WatchedStep(p) == UpdateStep(p) /\ scan' = Saw(scan, trees')

WatchedInsert(p) == UpdateInsert(p) /\ scan' = Saw(scan, trees') /\ UNCHANGED last

NextWatch ==
    \/ \E b \in LightBlock, s \in Status : WatchedBegin(b, s)
    \/ \E p \in Procs : WatchedStep(p)
    \/ \E p \in Procs : WatchedInsert(p)
    \/ \E s \in Status : ScanBegin(s)
    \/ \E fresh \in BOOLEAN : ScanNext(fresh)

SpecWatch == Init /\ [][NextWatch]_vars

\* ------------------------------------------------------------------ single-value cells
\* single(db, prefix).set(&value) on the cell of namespace n
CellSet(n, value, fail) ==
    /\ cell' = [cell EXCEPT ![n] =
                   [tree |-> SingleDb_set(cell[n].tree, value, fail).tree,
                    set |-> IF fail THEN cell[n].set ELSE Some(value)]]
    /\ last' = [op |-> "set", cell |-> n, value |-> Some(value),
                ret |-> SingleDb_set(cell[n].tree, value, fail).res]
    /\ UNCHANGED <<trees, procs, lastUpdate, calls, scan>>

\* single(db, prefix).get() on the cell of namespace n
CellGet(n, fail) ==
    /\ last' = [op |-> "cell_get", cell |-> n, value |-> None,
                ret |-> SingleDb_get(cell[n].tree, fail)]
    /\ UNCHANGED <<trees, procs, lastUpdate, calls, scan, cell>>

NextCell ==
    \/ \E n \in Cells, v \in CellValue, fail \in BOOLEAN : CellSet(n, v, fail)
    \/ \E n \in Cells, fail \in BOOLEAN : CellGet(n, fail)

SpecCell == Init /\ [][NextCell]_vars

\* ------------------------------------------------------------------ a database with rows that do not decode
\* SledStore::new opens the trees of a database that exists already: it can
\* hold rows written under an older shape of the light block, which
\* from_slice rejects. Such a row of height h is a block cut short after its
\* height, or a CBOR null.
Undecodable(h) == {<<130>> \o to_vec_uint(h), <<246>>}

\* The value bytes a row of height h can hold in such a database.
StaleValues(h) ==
    {to_vec_block(b) : b \in {x \in LightBlock : height(x) = h}} \cup Undecodable(h)

\* The store whose rows are given by f, a function from (status, height)
\* pairs to value bytes.
StoreOf(f) ==
    [s \in Status |->
        [k \in {to_vec_uint(x[2]) : x \in {y \in DOMAIN f : y[1] = s}}
            |-> f[<<s, read_uint(k).val>>]]]

InitStale ==
    /\ \E S \in SUBSET (Status \X Heights) :
          /\ Cardinality(S) <= MaxRows
          /\ \E f \in [S -> UNION {StaleValues(h) : h \in Heights}] :
                /\ \A x \in S : f[x] \in StaleValues(x[2])
                /\ trees = StoreOf(f)
    /\ last = Call("new", 0, "Unverified", None, None, {}, {})
    /\ procs = [p \in Procs |-> Idle]
    /\ lastUpdate = [h \in Heights |-> None]
    /\ calls = [p \in Procs |-> 0]
    /\ scan = NoScan
    /\ cell = [n \in Cells |-> EmptyCell]

\* One thread scanning the tables of such a database.
NextStale ==
    \/ \E s \in Status : Latest(s)
    \/ \E s \in Status : All(s)

SpecStale == InitStale /\ [][NextStale]_vars

\* ------------------------------------------------------------------ start of the light node
\* The store in which height h is held as g[h] says: under no status, or
\* under one status with one content.
ExclusiveStore(g) ==
    [s \in Status |->
        [k \in {to_vec_uint(h) :
                  h \in {x \in Heights : g[x] # None /\ g[x][1].status = s}}
            |-> to_vec_block([height |-> read_uint(k).val,
                              payload |-> g[read_uint(k).val][1].payload])]]

\* The contents a light store database can have with every height under at
\* most one status.
ExclusiveStores ==
    {ExclusiveStore(g) :
        g \in [Heights -> {None} \cup
                   {Some(x) : x \in [status : Status, payload : BOOLEAN]}]}

\* StartCmd::assert_init_was_run: the process goes on only when the shared
\* store holds a trusted or a verified block.
assert_init_was_run(shared_store) ==
    \/ SledStore_latest(shared_store, "Trusted") # None
    \/ SledStore_latest(shared_store, "Verified") # None

\* The seeding in StartCmd::construct_supervisor: the primary's latest
\* trusted block, if there is one, is inserted into the shared store as
\* Trusted.
construct_supervisor(primary_store, shared_state, fail) ==
    LET block == SledStore_latest(primary_store, "Trusted") IN
    IF block = None THEN shared_state
    ELSE SledStore_insert(shared_state, block[1], "Trusted", fail)

\* The shared database as a run of the node finds it.
InitStart ==
    /\ trees \in ExclusiveStores
    /\ last = Call("new", 0, "Unverified", None, None, {}, {})
    /\ procs = [p \in Procs |-> Idle]
    /\ lastUpdate = [h \in Heights |-> None]
    /\ calls = [p \in Procs |-> 0]
    /\ scan = NoScan
    /\ cell = [n \in Cells |-> EmptyCell]

\* StartCmd::run up to the supervisor: the process exits when the shared store
\* was never initialized, and seeds the shared store otherwise. primary_store
\* is the content of the primary instance's own store.
Start(primary_store, fail) ==
    /\ last.op = "new"
    /\ IF assert_init_was_run(trees)
          THEN LET block == SledStore_latest(primary_store, "Trusted") IN
               /\ trees' = construct_supervisor(primary_store, trees, fail)
               /\ last' = Call("seed", IF block = None THEN 0 ELSE height(block[1]),
                               "Trusted", block, None,
                               IF block = None THEN {}
                                   ELSE HeldUnder(trees, height(block[1])),
                               IF fail /\ block # None THEN {"Trusted"} ELSE {})
          ELSE /\ trees' = trees
               /\ last' = Call("exit", 0, "Unverified", None, None, {}, {})
    /\ UNCHANGED <<procs, lastUpdate, calls, scan, cell>>

NextStart ==
    \E primary_store \in ExclusiveStores, fail \in BOOLEAN : Start(primary_store, fail)

SpecStart == InitStart /\ [][NextStart]_vars

\* ------------------------------------------------------------------ what the tables hold
\* The row of height h in status s's table, read off the tree directly.
RowOf(store, s, h) ==
    IF to_vec_uint(h) \in DOMAIN store[s]
        THEN from_slice_block(store[s][to_vec_uint(h)])
        ELSE Err

\* The blocks of the rows of status s's table that decode.
DecodedIn(store, s) ==
    {from_slice_block(store[s][k]).val :
        k \in {x \in DOMAIN store[s] : from_slice_block(store[s][x]).ok}}

\* Two trees hold the same rows under every key other than k.
SameExcept(t1, t2, k) ==
    /\ (DOMAIN t1) \ {k} = (DOMAIN t2) \ {k}
    /\ \A x \in (DOMAIN t1) \ {k} : t1[x] = t2[x]

\* ------------------------------------------------------------------ claims, one thread
\* C1: after a completed update(block, s) with h the block's height, get(h, s)
\* returns that block and get(h, s') is absent for the three other statuses,
\* whatever tables held h before the call.
C1_UpdateExclusive ==
    last.op = "update" =>
        /\ SledStore_get(trees, last.height, last.status, FALSE) = last.block
        /\ \A s \in Status \ {last.status} :
               SledStore_get(trees, last.height, s, FALSE) = None

\* An update to Verified of a height that was held under Trusted and Failed.
C1_Witness ==
    /\ last.op = "update"
    /\ last.status = "Verified"
    /\ {"Trusted", "Failed"} \subseteq last.held

\* C7: insert(b, s) then get(height(b), s) returns b; remove(height(b), s)
\* then get(height(b), s) returns absent.
C7_RoundTrip ==
    /\ last.op = "insert" =>
           SledStore_get(trees, last.height, last.status, FALSE) = last.block
    /\ last.op = "remove" =>
           SledStore_get(trees, last.height, last.status, FALSE) = None

\* A remove of a row that an earlier insert or update had written, at the
\* height whose key takes two bytes.
C7_Witness ==
    /\ last.op = "remove"
    /\ last.status \in last.held
    /\ last.height >= 24

\* C8: latest(s) returns the block of maximum height among the rows of
\* status s's table, and absent exactly when the table is empty.
C8_LatestIsMax ==
    last.op = "latest" =>
        IF DOMAIN trees[last.status] = {}
            THEN last.ret = None
            ELSE /\ last.ret # None
                 /\ last.ret[1] \in BlocksIn(trees, last.status)
                 /\ \A b \in BlocksIn(trees, last.status) :
                        b.height <= last.ret[1].height

\* latest over a table of at least two rows.
C8_Witness ==
    /\ last.op = "latest"
    /\ Cardinality(DOMAIN trees[last.status]) >= 2
    /\ last.ret # None

\* C9: get(h, s) returns the block stored under h in status s's table and
\* absent when that table has no row for h, whatever the other tables hold.
C9_GetOnlyOwnTable ==
    last.op = "get" =>
        last.ret = (IF RowOf(trees, last.status, last.height).ok
                        THEN Some(RowOf(trees, last.status, last.height).val)
                        ELSE None)

\* get(h, s) is absent while h is held under another status.
C9_Witness ==
    /\ last.op = "get"
    /\ last.ret = None
    /\ HeldUnder(trees, last.height) # {}

\* C10: insert(b, s) writes b under height(b) into status s's table and
\* leaves the other three tables as they were; a row for the same height
\* under another status stays.
C10_InsertFrame ==
    [][last'.op = "insert" =>
          /\ \A s \in Status \ {last'.status} : trees'[s] = trees[s]
          /\ RowOf(trees', last'.status, last'.height) = Ok(last'.block[1])
          /\ HeldUnder(trees', last'.height)
                 = HeldUnder(trees, last'.height) \cup {last'.status}]_vars

\* After an insert the height is held under two statuses.
C10_Witness ==
    /\ last.op = "insert"
    /\ last.held \ {last.status} # {}
    /\ Cardinality(HeldUnder(trees, last.height)) >= 2

\* C11: remove(h, s) deletes only the row of h in status s's table: the rows
\* of h under the other three statuses and the rows of every other height
\* stay as they were; when s's table has no row for h the engine call still
\* succeeds and nothing changes.
C11_RemoveFrame ==
    [][last'.op = "remove" =>
          /\ \A s \in Status \ {last'.status} : trees'[s] = trees[s]
          /\ SameExcept(trees'[last'.status], trees[last'.status],
                        to_vec_uint(last'.height))
          /\ HeldUnder(trees', last'.height)
                 = HeldUnder(trees, last'.height) \ {last'.status}
          /\ KeyValueDb_remove(db(trees, last'.status), last'.height, FALSE).res
                 = Ok(<<>>)
          /\ last'.status \notin HeldUnder(trees, last'.height) => trees' = trees]_vars

\* A remove of a height held under the named status and under another one:
\* afterwards it is held under the other one only.
C11_Witness ==
    /\ last.op = "remove"
    /\ last.status \in last.held
    /\ last.held \ {last.status} # {}
    /\ HeldUnder(trees, last.height) = last.held \ {last.status}

\* C12: with no writer running, all(s) yields every block held in status s's
\* table exactly once and nothing else; what it yields is fixed by the rows of
\* that table alone, whatever calls, in whatever order, wrote them.
C12_AllExactlyOnce ==
    last.op = "all" =>
        /\ {last.ret[i] : i \in DOMAIN last.ret} = BlocksIn(trees, last.status)
        /\ Len(last.ret) = Cardinality(DOMAIN trees[last.status])
        /\ \A i, j \in DOMAIN last.ret : i # j => last.ret[i] # last.ret[j]

\* all over a table of two rows.
C12_Witness ==
    /\ last.op = "all"
    /\ Len(last.ret) >= 2

\* C13: a row whose value fails to decode does not end a scan: all(s) yields
\* exactly the rows of the table that decode, and latest(s) returns the block
\* of maximum height among them (absent when none decodes); both return a
\* plain value, never an error.
C13_UndecodableSkipped ==
    /\ last.op = "all" =>
           /\ {last.ret[i] : i \in DOMAIN last.ret} = DecodedIn(trees, last.status)
           /\ Len(last.ret) = Cardinality(DecodedIn(trees, last.status))
    /\ last.op = "latest" =>
           IF DecodedIn(trees, last.status) = {}
               THEN last.ret = None
               ELSE /\ last.ret # None
                    /\ last.ret[1] \in DecodedIn(trees, last.status)
                    /\ \A b \in DecodedIn(trees, last.status) :
                           height(b) <= height(last.ret[1])

\* all over a table of two rows whose first row in key order does not decode:
\* the second row is still yielded.
C13_Witness ==
    /\ last.op = "all"
    /\ Cardinality(DOMAIN trees[last.status]) = 2
    /\ ~from_slice_block(Tree_iter(trees[last.status])[1][2]).ok
    /\ Len(last.ret) = 1

\* C15: an insert under a height the same table holds already replaces the
\* stored value: the table keeps its keys, one row for that height, get returns
\* the block just inserted, and the other rows of the table stay.
C15_InsertOverwrites ==
    [][(last'.op = "insert" /\ last'.status \in HeldUnder(trees, last'.height)) =>
          /\ DOMAIN trees'[last'.status] = DOMAIN trees[last'.status]
          /\ Cardinality({b \in BlocksIn(trees', last'.status) :
                              height(b) = last'.height}) = 1
          /\ SledStore_get(trees', last'.height, last'.status, FALSE) = last'.block
          /\ SameExcept(trees'[last'.status], trees[last'.status],
                        to_vec_uint(last'.height))]_vars

\* An insert into a table that held the height already, next to a row of
\* another height in the same table.
C15_Witness ==
    /\ last.op = "insert"
    /\ last.status \in last.held
    /\ Cardinality(DOMAIN trees[last.status]) >= 2
    /\ SledStore_get(trees, last.height, last.status, FALSE) = last.block

\* C17: the store prunes nothing on its own: a row stays, with its value,
\* across every call other than a remove or an update naming its height and
\* an insert that overwrites it; get, latest and all leave all four tables as
\* they were.
C17_NoPruning ==
    [][/\ \A s \in Status : \A k \in DOMAIN trees[s] :
              (k \notin DOMAIN trees'[s] \/ trees'[s][k] # trees[s][k]) =>
                  /\ k = to_vec_uint(last'.height)
                  /\ \/ last'.op = "remove" /\ last'.status = s
                     \/ last'.op = "update"
                     \/ last'.op = "insert" /\ last'.status = s
       /\ last'.op \in {"get", "latest", "all"} => trees' = trees]_vars

\* A scan of a table of two rows has returned, and the rows are still there.
C17_Witness ==
    /\ last.op \in {"latest", "all"}
    /\ Cardinality(DOMAIN trees[last.status]) = MaxRows

\* C20: in a store written through the facade every row is stored under the
\* key of the height of the block it holds, so no table holds two rows whose
\* blocks have the same height, and the height latest compares is the key get
\* and remove use: get at the height of the block latest returns gives that
\* block.
C20_KeyIsHeight ==
    \A s \in Status :
        /\ \A k \in DOMAIN trees[s] :
               /\ from_slice_block(trees[s][k]).ok
               /\ to_vec_uint(height(from_slice_block(trees[s][k]).val)) = k
        /\ \A k1, k2 \in DOMAIN trees[s] :
               height(from_slice_block(trees[s][k1]).val)
                   = height(from_slice_block(trees[s][k2]).val) => k1 = k2
        /\ SledStore_latest(trees, s) # None =>
               SledStore_get(trees, height(SledStore_latest(trees, s)[1]), s, FALSE)
                   = SledStore_latest(trees, s)

\* An update has written the second row of a table: one key of one byte, one
\* of two.
C20_Witness ==
    /\ last.op = "update"
    /\ Cardinality(DOMAIN trees[last.status]) = 2
    /\ \E k1, k2 \in DOMAIN trees[last.status] : Len(k1) < Len(k2)

\* ------------------------------------------------------------------ claims, update step by step
\* C2: from an empty store written only through update and remove by a single
\* writer, every state, the states between the engine calls of an update
\* included, has each height in at most one of the four tables.
C2_AtMostOneTable ==
    \A h \in Heights : Cardinality(HeldUnder(trees, h)) <= 1

\* Inside the loop of an update that moves a height still held under its old
\* status.
C2_Witness ==
    \E p \in Procs :
        /\ procs[p].pc = "loop"
        /\ procs[p].idx > 1
        /\ procs[p].status \notin procs[p].held
        /\ HeldUnder(trees, height(procs[p].block[1])) # {}

\* C3: two racing updates of one height with different targets end with the
\* height in exactly one table, the target of the update whose insert was
\* applied last.
C3_LastWriterWins ==
    (AllIdle /\ last.op = "update") =>
        HeldUnder(trees, last.height) = {last.status}

\* C4: once all updates have returned, with no two of them ever running on the
\* same height at once, each updated height is in exactly the table named by
\* the last update call for that height and holds that call's block.
C4_DistinctHeights ==
    AllIdle =>
        \A h \in Heights :
            lastUpdate[h] # None =>
                /\ HeldUnder(trees, h) = {lastUpdate[h][1].status}
                /\ RowOf(trees, lastUpdate[h][1].status, h) = Ok(lastUpdate[h][1].block)

\* All returned, every height updated, one of the last calls begun while
\* another update was running, and one of them not the first for its height.
C4_Witness ==
    /\ AllIdle
    /\ \A h \in Heights : lastUpdate[h] # None
    /\ \E h \in Heights : lastUpdate[h][1].conc
    /\ \E h \in Heights : lastUpdate[h][1].again

\* C5: in an update that moves a height held under another status, after the
\* removes and before the insert the height is absent from all four tables:
\* get is absent for every status.
C5_AbsentMidUpdate ==
    \A p \in Procs :
        (/\ procs[p].pc = "insert"
         /\ procs[p].held # {}
         /\ procs[p].status \notin procs[p].held)
        => \A s \in Status :
               SledStore_get(trees, height(procs[p].block[1]), s, FALSE) = None

\* An update about to insert a height it has just removed from its old table.
C5_Witness ==
    \E p \in Procs :
        /\ procs[p].pc = "insert"
        /\ procs[p].held # {}
        /\ procs[p].status \notin procs[p].held

\* C18: no update blocks: whatever the other threads do, a started update
\* walks the statuses once, has issued at most three removes when it reaches
\* its insert, and under fair scheduling returns.
C18_UpdateReturns ==
    /\ [](\A p \in Procs :
             /\ procs[p].pc = "loop" => procs[p].idx \in 1..Len(StatusIter)
             /\ procs[p].pc = "loop" =>
                    Cardinality({i \in 1..(procs[p].idx - 1) :
                                    StatusIter[i] # procs[p].status}) <= 3
             /\ procs[p].pc = "insert" =>
                    Cardinality({i \in 1..Len(StatusIter) :
                                    StatusIter[i] # procs[p].status}) <= 3)
    /\ \A p \in Procs : (procs[p].pc # "idle") ~> (procs[p].pc = "idle")

\* One thread's update has returned while another thread is inside its loop.
C18_Witness ==
    \E p, q \in Procs :
        /\ calls[p] > 0
        /\ procs[p].pc = "idle"
        /\ procs[q].pc = "loop"
        /\ procs[q].idx > 1

\* C19: an update touches the rows of its block's height only: across each of
\* its engine calls, and so across the whole call, the rows of every other
\* height in all four tables stay as they were.
C19_UpdateOwnHeightOnly ==
    [][\A p \in Procs :
          (procs[p].pc # "idle" /\ procs'[p] # procs[p]) =>
              \A s \in Status :
                  SameExcept(trees'[s], trees[s],
                             to_vec_uint(height(procs[p].block[1])))]_vars

\* An update has removed its height from the table that held it and is about
\* to insert, while a table holds a row of another height.
C19_Witness ==
    \E p \in Procs :
        /\ procs[p].pc = "insert"
        /\ procs[p].held \ {procs[p].status} # {}
        /\ \E h \in Heights \ {height(procs[p].block[1])} :
               HeldUnder(trees, h) # {}

\* ------------------------------------------------------------------ claims, a scan next to a writer
\* C14: a scan that runs while a writer updates is no snapshot: every block it
\* yields, and the block latest returns, was held in the scanned table at some
\* moment between the start and the end of the scan; so latest(Trusted) never
\* returns a block that was never stored as Trusted.
C14_ScanSeesWhatWasThere ==
    /\ \A i \in DOMAIN scan.out : scan.out[i] \in Seen(scan)
    /\ (scan.pc = "done" /\ ScanResult(scan, "latest") # None)
           => ScanResult(scan, "latest")[1] \in Seen(scan)
    /\ scan.pc = "done"
           => \A i \in DOMAIN ScanResult(scan, "all") :
                  ScanResult(scan, "all")[i] \in Seen(scan)

\* A scan of the trusted table has ended with two rows that the table held at
\* no one moment between the start and the end of the scan: the writer changed
\* the table between two pulls, and what the scan yielded is no snapshot.
C14_Witness ==
    /\ scan.pc = "done"
    /\ scan.status = "Trusted"
    /\ Len(scan.out) = 2
    /\ {scan.out[i] : i \in DOMAIN scan.out} \notin scan.snaps
    /\ Cardinality(scan.snaps) > 1

\* ------------------------------------------------------------------ claims, single-value cells
\* C16: a cell holds at most one value: a get that succeeds returns none
\* before any set, and after any sequence of successful sets it returns the
\* value of the most recent one.
C16_CellHoldsLastSet ==
    /\ \A n \in Cells : Cardinality(DOMAIN cell[n].tree) <= 1
    /\ (last.op = "cell_get" /\ last.ret.ok) => last.ret.val = cell[last.cell].set

\* ------------------------------------------------------------------ claims, start of the light node
\* C21: from a shared store that holds every height under at most one status,
\* after construct_supervisor has copied the primary's latest trusted block
\* its height is held in the shared store under Trusted and under no other
\* status; when the primary has no trusted block the shared store is as it
\* was.
C21_SeedingExclusive ==
    [][(last'.op = "seed" /\ last'.failed = {}) =>
          IF last'.block = None
              THEN trees' = trees
              ELSE /\ HeldUnder(trees', last'.height) = {"Trusted"}
                   /\ RowOf(trees', "Trusted", last'.height) = Ok(last'.block[1])]_vars

\* ------------------------------------------------------------------ claims, failing engine calls

\* C6: a call in which a table operation fails leaves all four tables as they
\* were, update included, and a failed get returns absent.
C6_FailureNoEffect ==
    [][/\ (last'.op \in {"insert", "update", "remove"} /\ last'.failed # {})
            => trees' = trees
       /\ (last'.op = "get" /\ last'.failed # {}) => last'.ret = None]_vars

====
